---- MODULE Spec2Model ----
(***************************************************************************)
(* The Timezones plugin (src/index.tsx): a registry userId -> timezone     *)
(* held in memory (userTimezones), mirrored into the settings string       *)
(* storedTimezones as JSON, and a renderer (formatUserTime) used by the    *)
(* message decoration.                                                     *)
(*                                                                         *)
(* JavaScript values are tagged records, JSON text is a sequence of        *)
(* lexical tokens: JSON.stringify writes tokens, JSON.parse is a recursive *)
(* descent parser over them.  Quoting and escaping inside one string token *)
(* are below the level of the model.                                       *)
(***************************************************************************)
EXTENDS Integers, Sequences, FiniteSets, TLC

\* ------------------------------------------------------------------ bounds
\* Number of distinct users (identity ids) the host presents.
MaxUsers == 2
\* Number of settings writes the host lets fail in one run.
MaxWriteFailures == 1

\* User ids are Discord snowflakes: decimal strings far above 2^32 - 2, so
\* they are never array indices and never names found on a prototype.
UserIdTable == <<"u1", "u2", "u3", "u4">>
UserIds == {UserIdTable[i] : i \in 1..MaxUsers}

\* --------------------------------------------------------- JavaScript values
JSValue(t, s, props, items) == [t |-> t, s |-> s, props |-> props, items |-> items]
Undefined == JSValue("undefined", "", <<>>, <<>>)
JSNull == JSValue("null", "", <<>>, <<>>)
JSString(s) == JSValue("string", s, <<>>, <<>>)
\* a number, kept as its JSON lexeme
JSNumber(lexeme) == JSValue("number", lexeme, <<>>, <<>>)
\* an ordinary object: own properties in insertion order
JSObject(props) == JSValue("object", "", props, <<>>)
\* an array: indexed items, plus named own properties in insertion order
JSArray(items, props) == JSValue("array", "", props, items)
Prop(key, value) == [key |-> key, value |-> value]

\* ToBoolean
Truthy(v) ==
    CASE v.t = "undefined" -> FALSE
      [] v.t = "null" -> FALSE
      [] v.t = "string" -> v.s # ""
      [] v.t = "number" -> v.s # "0"
      [] OTHER -> TRUE

\* ToString, as the Intl constructor applies it to its timeZone option
ToStringJS(v) ==
    CASE v.t \in {"string", "number"} -> v.s
      [] v.t = "object" -> "[object Object]"
      [] v.t = "null" -> "null"
      [] v.t = "undefined" -> "undefined"
      [] OTHER -> "(array)"

HasOwn(props, key) == \E i \in 1..Len(props) : props[i].key = key
OwnIndex(props, key) == CHOOSE i \in 1..Len(props) : props[i].key = key

\* Mutant of DefineProp: the assignment replaces the own properties by the one
\* assigned.
DefinePropAlone(props, key, value) == <<Prop(key, value)>>

\* CreateDataProperty / [[Set]] on own properties: an existing key keeps its
\* place, a new key is appended.
DefineProp(props, key, value) ==
    IF HasOwn(props, key)
    THEN [props EXCEPT ![OwnIndex(props, key)] = Prop(key, value)]
    ELSE Append(props, Prop(key, value))

\* [[Delete]] of an own property
DeleteProp(props, key) ==
    IF HasOwn(props, key)
    THEN LET i == OwnIndex(props, key)
         IN SubSeq(props, 1, i - 1) \o SubSeq(props, i + 1, Len(props))
    ELSE props

\* The own entries of a value as a set of (key, value) pairs.
Entries(v) == {<<v.props[i].key, v.props[i].value>> : i \in 1..Len(v.props)}

\* base[key]: a TypeError on null and undefined, else the own property or
\* undefined (no user id names an inherited property or an array index).
GetProperty(base, key) ==
    IF base.t \in {"null", "undefined"}
    THEN [raised |-> "TypeError", value |-> Undefined]
    ELSE [raised |-> "none",
          value |-> IF HasOwn(base.props, key)
                    THEN base.props[OwnIndex(base.props, key)].value
                    ELSE Undefined]

\* base[key] = value in module (strict) code: a TypeError on null and on a
\* primitive base, else the own property is written.
SetProperty(base, key, value) ==
    IF base.t \in {"object", "array"}
    THEN [raised |-> "none",
          base |-> [base EXCEPT !.props = DefineProp(base.props, key, value)]]
    ELSE [raised |-> "TypeError", base |-> base]

\* Mutant of DeleteProperty: the entry is left in place.
DeletePropertyKeepsEntry(base, key) ==
    IF base.t \in {"null", "undefined"}
    THEN [raised |-> "TypeError", base |-> base]
    ELSE [raised |-> "none", base |-> base]

\* delete base[key]: a TypeError on null, nothing to delete on a primitive.
DeleteProperty(base, key) ==
    IF base.t \in {"null", "undefined"}
    THEN [raised |-> "TypeError", base |-> base]
    ELSE [raised |-> "none",
          base |-> [base EXCEPT !.props = DeleteProp(base.props, key)]]

\* ------------------------------------------------------------------- JSON
Tok(k, v) == [k |-> k, v |-> v]
LBrace == Tok("punct", "{")
RBrace == Tok("punct", "}")
LBracket == Tok("punct", "[")
RBracket == Tok("punct", "]")
Colon == Tok("punct", ":")
Comma == Tok("punct", ",")
StrTok(s) == Tok("string", s)
NumTok(lexeme) == Tok("number", lexeme)
NullTok == Tok("literal", "null")
\* a run of characters that is no JSON token
JunkTok(w) == Tok("junk", w)

RECURSIVE StringifyValue(_)
RECURSIVE StringifyProps(_, _)
RECURSIVE StringifyItems(_, _)
RECURSIVE StringifyPropsNoComma(_, _)
\* Mutant of StringifyProps: the members are written without the separator.
StringifyPropsNoComma(props, i) ==
    IF i > Len(props) THEN <<>>
    ELSE <<StrTok(props[i].key), Colon>>
         \o StringifyValue(props[i].value)
         \o StringifyPropsNoComma(props, i + 1)
\* JSON.stringify of the members of an object, from member i on
StringifyProps(props, i) ==
    IF i > Len(props) THEN <<>>
    ELSE (IF i > 1 THEN <<Comma>> ELSE <<>>)
         \o <<StrTok(props[i].key), Colon>>
         \o StringifyValue(props[i].value)
         \o StringifyProps(props, i + 1)
\* JSON.stringify of the elements of an array, from element i on
StringifyItems(items, i) ==
    IF i > Len(items) THEN <<>>
    ELSE (IF i > 1 THEN <<Comma>> ELSE <<>>)
         \o StringifyValue(items[i])
         \o StringifyItems(items, i + 1)
\* JSON.stringify: an array writes its indexed items only
StringifyValue(v) ==
    CASE v.t = "string" -> <<StrTok(v.s)>>
      [] v.t = "number" -> <<NumTok(v.s)>>
      [] v.t = "null" -> <<NullTok>>
      [] v.t = "object" -> <<LBrace>> \o StringifyProps(v.props, 1) \o <<RBrace>>
      [] v.t = "array" -> <<LBracket>> \o StringifyItems(v.items, 1) \o <<RBracket>>
      [] OTHER -> <<>>

ParseFail == [ok |-> FALSE, val |-> Undefined, next |-> 0]
ParseOk(val, next) == [ok |-> TRUE, val |-> val, next |-> next]

RECURSIVE ParseValue(_, _)
RECURSIVE ParseMembers(_, _, _)
RECURSIVE ParseElements(_, _, _)
\* members of an object from token i on: string ":" value, then "," or "}"
ParseMembers(toks, i, props) ==
    IF i + 1 > Len(toks) \/ toks[i].k # "string" \/ toks[i + 1] # Colon
    THEN ParseFail
    ELSE LET r == ParseValue(toks, i + 2)
         IN IF ~r.ok \/ r.next > Len(toks) THEN ParseFail
            ELSE IF toks[r.next] = RBrace
            THEN ParseOk(JSObject(DefineProp(props, toks[i].v, r.val)), r.next + 1)
            ELSE IF toks[r.next] = Comma
            THEN ParseMembers(toks, r.next + 1, DefineProp(props, toks[i].v, r.val))
            ELSE ParseFail
\* elements of an array from token i on: value, then "," or "]"
ParseElements(toks, i, items) ==
    LET r == ParseValue(toks, i)
    IN IF ~r.ok \/ r.next > Len(toks) THEN ParseFail
       ELSE IF toks[r.next] = RBracket
       THEN ParseOk(JSArray(Append(items, r.val), <<>>), r.next + 1)
       ELSE IF toks[r.next] = Comma
       THEN ParseElements(toks, r.next + 1, Append(items, r.val))
       ELSE ParseFail
\* one JSON value starting at token i
ParseValue(toks, i) ==
    IF i > Len(toks) THEN ParseFail
    ELSE CASE toks[i].k = "string" -> ParseOk(JSString(toks[i].v), i + 1)
           [] toks[i].k = "number" -> ParseOk(JSNumber(toks[i].v), i + 1)
           [] toks[i] = NullTok -> ParseOk(JSNull, i + 1)
           [] toks[i] = LBrace ->
                IF i + 1 <= Len(toks) /\ toks[i + 1] = RBrace
                THEN ParseOk(JSObject(<<>>), i + 2)
                ELSE ParseMembers(toks, i + 1, <<>>)
           [] toks[i] = LBracket ->
                IF i + 1 <= Len(toks) /\ toks[i + 1] = RBracket
                THEN ParseOk(JSArray(<<>>, <<>>), i + 2)
                ELSE ParseElements(toks, i + 1, <<>>)
           [] OTHER -> ParseFail

\* JSON.parse: the whole text must be one value; otherwise a SyntaxError.
JSONparse(text) ==
    LET r == ParseValue(text, 1)
    IN IF r.ok /\ r.next = Len(text) + 1
       THEN [raised |-> "none", value |-> r.val]
       ELSE [raised |-> "SyntaxError", value |-> Undefined]

\* JSON.stringify
JSONstringify(v) == StringifyValue(v)

\* ------------------------------------------------------- platform time zones
\* Zones the date/time facility (Intl) recognizes, with their January offset
\* from UTC in minutes and their "shortOffset" name.
PlatformZones == ("Europe/Berlin" :> 60) @@ ("Asia/Tokyo" :> 540)
ShortOffset == ("Europe/Berlin" :> "GMT+1") @@ ("Asia/Tokyo" :> "GMT+9")
IsValidTimeZone(name) == name \in DOMAIN PlatformZones

\* Zones offered by the menu (a part of the catalog; all are valid zones).
zonesByRegion == {"Europe/Berlin", "Asia/Tokyo"}

\* Instants, in minutes since 2024-01-15T00:00Z.
Dates == {720, 1230}

\* Return values of the plugin's functions.
Void == [kind |-> "void"]
Null == [kind |-> "null"]

\* new Intl.DateTimeFormat(locale, {..., hourCycle, timeZone, timeZoneName})
\* .format(date): the fields of the formatted text.
IntlFormat(zone, date, withDate, hourCycle, timeZoneName) ==
    LET local == date + PlatformZones[zone]
        hour == (local % 1440) \div 60
    IN [kind |-> "text",
        hour |-> IF hourCycle = "h23" THEN hour ELSE ((hour + 11) % 12) + 1,
        minute |-> local % 60,
        dayPeriod |-> IF hourCycle = "h23" THEN ""
                      ELSE IF hour < 12 THEN "AM" ELSE "PM",
        timeZoneName |-> IF timeZoneName = "shortOffset" THEN ShortOffset[zone] ELSE "",
        day |-> IF withDate THEN local \div 1440 ELSE -1]

\* --------------------------------------------------------------------- state
VARIABLES
    userTimezones,      \* the in-memory registry (a JavaScript value)
    storedTimezones,    \* settings.store.storedTimezones
    twentyFourHours,    \* settings.store.twentyFourHours
    showInMessage,      \* settings.store.showInMessage
    showOffset,         \* settings.store.showOffset
    started,            \* the plugin is started: decoration and menu are registered
    writeFailures,      \* settings writes that failed so far
    lastCall            \* the last call into the plugin and its outcome

vars == <<userTimezones, storedTimezones, twentyFourHours, showInMessage,
          showOffset, started, writeFailures, lastCall>>

\* The settings string: undefined, or a text.
NoText == [defined |-> FALSE, text |-> <<>>]
Text(toks) == [defined |-> TRUE, text |-> toks]

\* What the settings store may hold when the plugin is constructed: nothing,
\* the empty string, the default "{}", and texts left there by something else
\* than saveTimezones: not json, null, [], 123, {"u1":"Mars/Phobos"}, {"u1":5}.
InitialBlobs ==
    { NoText,
      Text(<<>>),
      Text(<<LBrace, RBrace>>),
      Text(<<JunkTok("not"), JunkTok("json")>>),
      Text(<<NullTok>>),
      Text(<<LBracket, RBracket>>),
      Text(<<NumTok("123")>>),
      Text(<<LBrace, StrTok(UserIdTable[1]), Colon, StrTok("Mars/Phobos"), RBrace>>),
      Text(<<LBrace, StrTok(UserIdTable[1]), Colon, NumTok("5"), RBrace>>) }

\* A call: the operation, its user id and argument, the exception it let
\* escape ("none" if it returned), its return value, what became of its
\* settings write ("ok", "failed", or "none" if it wrote nothing), and whether
\* the registry held an own entry for the user id when it was made.
Call(op, id, arg, raised, ret, wrote, had) ==
    [op |-> op, id |-> id, arg |-> arg, raised |-> raised, ret |-> ret,
     wrote |-> wrote, had |-> had]

\* ------------------------------------------------------------ the functions
\* loadTimezones: the registry it leaves for a settings string.
loadTimezones(raw) ==
    IF raw.defined /\ raw.text # <<>>
    THEN LET parsed == JSONparse(raw.text)
         IN IF parsed.raised = "none" THEN parsed.value ELSE JSObject(<<>>)
    ELSE JSObject(<<>>)

\* Mutant of saveTimezones: a failing write resets the setting to its default.
saveTimezonesResetting(registry, stored, writeOk) ==
    IF writeOk THEN Text(JSONstringify(registry)) ELSE Text(<<LBrace, RBrace>>)

\* saveTimezones: the settings string it leaves; a failing write is caught.
saveTimezones(registry, stored, writeOk) ==
    IF writeOk THEN Text(JSONstringify(registry)) ELSE stored

\* Mutant of formatUserTime: the facility's RangeError is caught and null is
\* returned.
formatUserTimeCatching(userId, date, withDate) ==
    LET got == GetProperty(userTimezones, userId)
    IN IF got.raised # "none" THEN [raised |-> got.raised, ret |-> Void]
       ELSE IF ~Truthy(got.value) THEN [raised |-> "none", ret |-> Null]
       ELSE IF ~IsValidTimeZone(ToStringJS(got.value))
       THEN [raised |-> "none", ret |-> Null]
       ELSE [raised |-> "none",
             ret |-> IntlFormat(ToStringJS(got.value), date, withDate,
                                IF twentyFourHours THEN "h23" ELSE "h12",
                                IF showOffset THEN "shortOffset" ELSE "undefined")]

\* Mutant of formatUserTime: the options are read once, when the module is
\* evaluated (both at their defaults), and not at the call.
formatUserTimeCaptured(userId, date, withDate) ==
    LET got == GetProperty(userTimezones, userId)
    IN IF got.raised # "none" THEN [raised |-> got.raised, ret |-> Void]
       ELSE IF ~Truthy(got.value) THEN [raised |-> "none", ret |-> Null]
       ELSE IF ~IsValidTimeZone(ToStringJS(got.value))
       THEN [raised |-> "RangeError", ret |-> Void]
       ELSE [raised |-> "none",
             ret |-> IntlFormat(ToStringJS(got.value), date, withDate,
                                "h12", "undefined")]

\* formatUserTime(userId, date, withDate): null without a (truthy) entry, a
\* RangeError of the facility for a zone it does not recognize, else the text.
formatUserTime(userId, date, withDate) ==
    LET got == GetProperty(userTimezones, userId)
    IN IF got.raised # "none" THEN [raised |-> got.raised, ret |-> Void]
       ELSE IF ~Truthy(got.value) THEN [raised |-> "none", ret |-> Null]
       ELSE IF ~IsValidTimeZone(ToStringJS(got.value))
       THEN [raised |-> "RangeError", ret |-> Void]
       ELSE [raised |-> "none",
             ret |-> IntlFormat(ToStringJS(got.value), date, withDate,
                                IF twentyFourHours THEN "h23" ELSE "h12",
                                IF showOffset THEN "shortOffset" ELSE "undefined")]

\* Mutant of decoration: the long form is rendered for another instant than
\* the message's timestamp.
decorationLongOtherInstant(authorId, timestamp) ==
    IF ~showInMessage THEN [raised |-> "none", ret |-> Null]
    ELSE IF authorId = "" THEN [raised |-> "none", ret |-> Null]
    ELSE LET got == GetProperty(userTimezones, authorId)
             short == formatUserTime(authorId, timestamp, FALSE)
             long == formatUserTime(authorId, CHOOSE d \in Dates : d # timestamp, TRUE)
         IN IF got.raised # "none" THEN [raised |-> got.raised, ret |-> Void]
            ELSE IF ~Truthy(got.value) THEN [raised |-> "none", ret |-> Null]
            ELSE IF short.raised # "none" THEN [raised |-> short.raised, ret |-> Void]
            ELSE IF long.raised # "none" THEN [raised |-> long.raised, ret |-> Void]
            ELSE IF short.ret = Null \/ long.ret = Null
            THEN [raised |-> "none", ret |-> Null]
            ELSE [raised |-> "none",
                  ret |-> [kind |-> "tooltip", long |-> long.ret,
                           tz |-> ToStringJS(got.value), short |-> short.ret]]

\* The message decoration callback registered by start().
decoration(authorId, timestamp) ==
    IF ~showInMessage THEN [raised |-> "none", ret |-> Null]
    ELSE IF authorId = "" THEN [raised |-> "none", ret |-> Null]
    ELSE LET got == GetProperty(userTimezones, authorId)
             short == formatUserTime(authorId, timestamp, FALSE)
             long == formatUserTime(authorId, timestamp, TRUE)
         IN IF got.raised # "none" THEN [raised |-> got.raised, ret |-> Void]
            ELSE IF ~Truthy(got.value) THEN [raised |-> "none", ret |-> Null]
            ELSE IF short.raised # "none" THEN [raised |-> short.raised, ret |-> Void]
            ELSE IF long.raised # "none" THEN [raised |-> long.raised, ret |-> Void]
            ELSE IF short.ret = Null \/ long.ret = Null
            THEN [raised |-> "none", ret |-> Null]
            ELSE [raised |-> "none",
                  ret |-> [kind |-> "tooltip", long |-> long.ret,
                           tz |-> ToStringJS(got.value), short |-> short.ret]]

\* The registry holds an own entry for the user id.
Has(id) == HasOwn(userTimezones.props, id)

\* The "user-context" handler: it returns at once without a user, looks the
\* user up, and builds the menu (the current zone, set or change, remove).
userContext(id) ==
    LET got == GetProperty(userTimezones, id)
    IN IF got.raised # "none" THEN [raised |-> got.raised, ret |-> Void]
       ELSE [raised |-> "none",
             ret |-> [kind |-> "menu",
                      current |-> IF Truthy(got.value) THEN ToStringJS(got.value) ELSE "",
                      removeDisabled |-> ~Truthy(got.value)]]

\* ------------------------------------------------------------------- actions
Init ==
    /\ userTimezones = JSObject(<<>>)
    /\ storedTimezones \in InitialBlobs
    /\ twentyFourHours = FALSE
    /\ showInMessage = TRUE
    /\ showOffset = FALSE
    /\ started = FALSE
    /\ writeFailures = 0
    /\ lastCall = Call("none", "", "", "none", Void, "none", FALSE)

\* start(): loadTimezones(), then the decoration is registered.
Start ==
    /\ ~started
    /\ userTimezones' = loadTimezones(storedTimezones)
    /\ started' = TRUE
    /\ lastCall' = Call("start", "", "", "none", Void, "none", FALSE)
    /\ UNCHANGED <<storedTimezones, twentyFourHours, showInMessage, showOffset,
                   writeFailures>>

\* stop(): the decoration is removed.
Stop ==
    /\ started
    /\ started' = FALSE
    /\ lastCall' = Call("stop", "", "", "none", Void, "none", FALSE)
    /\ UNCHANGED <<userTimezones, storedTimezones, twentyFourHours, showInMessage,
                   showOffset, writeFailures>>

\* The host opens the context menu of a user: the "user-context" handler runs.
UserContext(id) ==
    /\ started
    /\ LET r == userContext(id)
       IN lastCall' = Call("user-context", id, "", r.raised, r.ret, "none", Has(id))
    /\ UNCHANGED <<userTimezones, storedTimezones, twentyFourHours, showInMessage,
                   showOffset, started, writeFailures>>

\* The actions of the menu items are created by the handler, after its own
\* lookup of the user: they exist only in a menu the handler built, and the
\* menu is closed before the plugin can be stopped or started.  Whether the
\* host lets a disabled item be clicked is the host's affair, so the remove
\* action is taken to be callable in every menu.
MenuBuilt(id) == started /\ userContext(id).raised = "none"

\* The set action of a menu item: assign, saveTimezones(), log.
Set(id, zone) ==
    /\ MenuBuilt(id)
    /\ LET r == SetProperty(userTimezones, id, JSString(zone))
       IN IF r.raised # "none"
          THEN /\ lastCall' = Call("set", id, zone, r.raised, Void, "none", Has(id))
               /\ UNCHANGED <<userTimezones, storedTimezones, writeFailures>>
          ELSE \E writeOk \in BOOLEAN :
               /\ writeOk \/ writeFailures < MaxWriteFailures
               /\ userTimezones' = r.base
               /\ storedTimezones' = saveTimezones(r.base, storedTimezones, writeOk)
               /\ writeFailures' = IF writeOk THEN writeFailures ELSE writeFailures + 1
               /\ lastCall' = Call("set", id, zone, "none", Void,
                                   IF writeOk THEN "ok" ELSE "failed", Has(id))
    /\ UNCHANGED <<twentyFourHours, showInMessage, showOffset, started>>

\* The remove action of the menu: delete, saveTimezones(), log.
Remove(id) ==
    /\ MenuBuilt(id)
    /\ LET r == DeleteProperty(userTimezones, id)
       IN IF r.raised # "none"
          THEN /\ lastCall' = Call("remove", id, "", r.raised, Void, "none", Has(id))
               /\ UNCHANGED <<userTimezones, storedTimezones, writeFailures>>
          ELSE \E writeOk \in BOOLEAN :
               /\ writeOk \/ writeFailures < MaxWriteFailures
               /\ userTimezones' = r.base
               /\ storedTimezones' = saveTimezones(r.base, storedTimezones, writeOk)
               /\ writeFailures' = IF writeOk THEN writeFailures ELSE writeFailures + 1
               /\ lastCall' = Call("remove", id, "", "none", Void,
                                   IF writeOk THEN "ok" ELSE "failed", Has(id))
    /\ UNCHANGED <<twentyFourHours, showInMessage, showOffset, started>>

\* A call of formatUserTime.
Format(id, date, withDate) ==
    /\ LET r == formatUserTime(id, date, withDate)
       IN lastCall' = Call(IF withDate THEN "formatLong" ELSE "format", id, "",
                           r.raised, r.ret, "none", Has(id))
    /\ UNCHANGED <<userTimezones, storedTimezones, twentyFourHours, showInMessage,
                   showOffset, started, writeFailures>>

\* The host paints a message: the decoration callback runs.
Decorate(authorId, timestamp) ==
    /\ started
    /\ LET r == decoration(authorId, timestamp)
       IN lastCall' = Call("decoration", authorId, "", r.raised, r.ret, "none", Has(authorId))
    /\ UNCHANGED <<userTimezones, storedTimezones, twentyFourHours, showInMessage,
                   showOffset, started, writeFailures>>

\* The user flips one of the boolean options in the settings UI.
ChangeSetting(name) ==
    /\ twentyFourHours' = IF name = "twentyFourHours" THEN ~twentyFourHours ELSE twentyFourHours
    /\ showInMessage' = IF name = "showInMessage" THEN ~showInMessage ELSE showInMessage
    /\ showOffset' = IF name = "showOffset" THEN ~showOffset ELSE showOffset
    /\ lastCall' = Call("setting", "", name, "none", Void, "none", FALSE)
    /\ UNCHANGED <<userTimezones, storedTimezones, started, writeFailures>>

Next ==
    \/ Start
    \/ Stop
    \/ \E id \in UserIds, zone \in zonesByRegion : Set(id, zone)
    \/ \E id \in UserIds : Remove(id)
    \/ \E id \in UserIds : UserContext(id)
    \/ \E id \in UserIds, date \in Dates, withDate \in BOOLEAN : Format(id, date, withDate)
    \/ \E authorId \in UserIds \cup {""}, timestamp \in Dates : Decorate(authorId, timestamp)

Spec == Init /\ [][Next]_vars

\* The same, with the options changing between calls.
NextSettings ==
    \/ Next
    \/ \E name \in {"twentyFourHours", "showInMessage", "showOffset"} : ChangeSetting(name)

SpecSettings == Init /\ [][NextSettings]_vars

\* The rendering side: the options change between calls and every settings
\* write succeeds.
NextRender ==
    \/ Start
    \/ Stop
    \/ \E id \in UserIds, zone \in zonesByRegion : Set(id, zone) /\ writeFailures' = writeFailures
    \/ \E id \in UserIds : Remove(id) /\ writeFailures' = writeFailures
    \/ \E id \in UserIds, date \in Dates, withDate \in BOOLEAN : Format(id, date, withDate)
    \/ \E authorId \in UserIds \cup {""}, timestamp \in Dates : Decorate(authorId, timestamp)
    \/ \E name \in {"twentyFourHours", "showInMessage", "showOffset"} : ChangeSetting(name)

SpecRender == Init /\ [][NextRender]_vars


\* -------------------------------------------------------------------- claims
\* The lookup userTimezones[id], and its "absent" outcome.
Lookup(id) == GetProperty(userTimezones, id)
Absent == [raised |-> "none", value |-> Undefined]
FormatAbsent == [raised |-> "none", ret |-> Null]
RegistryCalls == {"start", "set", "remove"}

\* C1: after a load, set or remove, in a run where every settings write
\* succeeded, the persisted text reads back (as loadTimezones reads it) as the
\* entries of the in-memory registry: the same user ids, the same zone each.
C1_BlobMatchesMemory ==
    (lastCall.op \in RegistryCalls /\ writeFailures = 0)
        => Entries(loadTimezones(storedTimezones)) = Entries(userTimezones)

\* C2: right after set(id, zone) the lookup of id returns exactly zone (the
\* last set wins).
C2_SetThenGet ==
    lastCall.op = "set"
        => Lookup(lastCall.id) = [raised |-> "none", value |-> JSString(lastCall.arg)]

\* What C3 asks of one step.
C3_RemoveStep ==
    \A id \in UserIds :
        (lastCall'.op = "remove" /\ lastCall'.id = id)
            => /\ lastCall'.raised = "none"
               /\ Lookup(id)' = Absent
               /\ \A date \in Dates, withDate \in BOOLEAN :
                      formatUserTime(id, date, withDate)' = FormatAbsent
               /\ ~Has(id) => userTimezones' = userTimezones

\* C3: a remove never raises; after it the lookup of its user id is absent and
\* formatUserTime returns null for it; a remove of a user id the registry does
\* not hold leaves the registry as it was.
C3_RemoveThenAbsent == [][C3_RemoveStep]_vars

\* C3 witness: a remove of a user id the registry held, with another entry left.
C3_Witness ==
    /\ lastCall.op = "remove"
    /\ lastCall.had
    /\ lastCall.raised = "none"
    /\ ~Has(lastCall.id)
    /\ Len(userTimezones.props) >= 1

\* C4: for every user id the registry holds no entry for, the lookup is absent
\* and formatUserTime returns null, in short and in long form.
C4_NeverSetAbsent ==
    \A id \in UserIds :
        ~Has(id) => /\ Lookup(id) = Absent
                    /\ \A date \in Dates, withDate \in BOOLEAN :
                           formatUserTime(id, date, withDate) = FormatAbsent

\* C5: a registry that is a mapping (an object of entries set and removed)
\* survives the round trip: loadTimezones of the text saveTimezones writes for
\* it is again an object, with the same user ids and the same zone for each.
C5_RoundTrip ==
    userTimezones.t = "object"
        => LET back == loadTimezones(saveTimezones(userTimezones, storedTimezones, TRUE))
           IN back.t = "object" /\ Entries(back) = Entries(userTimezones)

\* C5 witness: a mapping of two entries reached by a set.
C5_Witness ==
    /\ lastCall.op = "set"
    /\ userTimezones.t = "object"
    /\ Len(userTimezones.props) = 2

\* A text that is a serialized mapping from user ids to zone strings.
IsSerializedMapping(raw) ==
    /\ raw.defined
    /\ JSONparse(raw.text).raised = "none"
    /\ JSONparse(raw.text).value.t = "object"
    /\ \A e \in Entries(JSONparse(raw.text).value) : e[2].t = "string"

\* C6: a start that finds no text, or a text that is not a serialized mapping,
\* returns without raising and leaves the registry the empty mapping.
C6_LoadMalformedEmpty ==
    (lastCall.op = "start" /\ ~IsSerializedMapping(storedTimezones))
        => lastCall.raised = "none" /\ userTimezones = JSObject(<<>>)

\* What C7 asks of one step.
C7_Step ==
    /\ \A id \in UserIds :
        (lastCall'.op \in {"set", "remove"} /\ lastCall'.id = id
                /\ lastCall'.wrote = "failed")
            => /\ lastCall'.raised = "none"
               /\ storedTimezones' = storedTimezones
               /\ Lookup(id)' = IF lastCall'.op = "set"
                                THEN [raised |-> "none", value |-> JSString(lastCall'.arg)]
                                ELSE Absent
    /\ storedTimezones' # storedTimezones
            => lastCall'.op \in {"set", "remove"} /\ lastCall'.wrote = "ok"

\* C7: a set or remove whose settings write fails returns without raising,
\* keeps its change of the registry (the lookup shows the set zone, or absent
\* after a remove) and leaves the persisted text as it was; and the persisted
\* text changes in no step but a set or remove whose write succeeds.
C7_WriteFailureKeepsMemory == [][C7_Step]_vars

\* C7 witness: a set whose write failed: the registry holds the zone, the
\* persisted text does not.
C7_Witness ==
    /\ lastCall.op = "set"
    /\ lastCall.wrote = "failed"
    /\ Lookup(lastCall.id).value = JSString(lastCall.arg)
    /\ Entries(loadTimezones(storedTimezones)) # Entries(userTimezones)

\* The registry holds, for the user id, a value the date/time facility does
\* not recognize as a time zone.
UnrecognizedZone(id) ==
    /\ Lookup(id).raised = "none"
    /\ Truthy(Lookup(id).value)
    /\ ~IsValidTimeZone(ToStringJS(Lookup(id).value))

\* C8: a call of formatUserTime for a user whose registered zone is not
\* recognized ends in an outcome that is neither the absent outcome (null)
\* nor a time text: it raises.
C8_UnknownZoneFails ==
    (lastCall.op \in {"format", "formatLong"} /\ UnrecognizedZone(lastCall.id))
        => /\ lastCall.raised # "none"
           /\ lastCall.ret.kind \notin {"text", "null"}

\* C8 witness: formatUserTime was called for a user registered with Mars/Phobos.
C8_Witness ==
    /\ lastCall.op = "format"
    /\ Lookup(lastCall.id) = [raised |-> "none", value |-> JSString("Mars/Phobos")]
    /\ lastCall.raised = "RangeError"

\* C9: no call lets an exception escape to the host.
C9_NoExceptionToHost == lastCall.raised = "none"

\* What C10 asks of one step.
C10_Step ==
    /\ lastCall'.op = "stop"
            => userTimezones' = userTimezones /\ storedTimezones' = storedTimezones
    /\ (lastCall.op = "stop" /\ lastCall'.op = "start" /\ writeFailures = 0)
            => /\ userTimezones'.t = userTimezones.t
               /\ Entries(userTimezones') = Entries(userTimezones)

\* C10: stop changes neither the registry nor the persisted text, and in a run
\* where every settings write succeeded the start that follows a stop leaves
\* the registry with the entries it had before the stop.
C10_RestartKeepsChoices == [][C10_Step]_vars

\* C11: every format call that produces a text renders it with the option
\* values current at that call: the day period (AM/PM) is absent exactly when
\* twentyFourHours is on, and the offset is shown exactly when showOffset is
\* on, whatever the options were at start or at an earlier call.
C11_OptionsReadAtCall ==
    (lastCall.op \in {"format", "formatLong"} /\ lastCall.ret.kind = "text")
        => /\ (lastCall.ret.dayPeriod = "") <=> twentyFourHours
           /\ (lastCall.ret.hour \in 13..23) => twentyFourHours
           /\ (lastCall.ret.timeZoneName # "") <=> showOffset

\* A format call made after both options were switched on, past noon.
C11_Witness ==
    /\ lastCall.op = "format"
    /\ started
    /\ twentyFourHours /\ showOffset
    /\ lastCall.ret.kind = "text"
    /\ lastCall.ret.hour = 21
    /\ lastCall.ret.dayPeriod = ""
    /\ lastCall.ret.timeZoneName = "GMT+1"

\* C12: the two forms of one message decoration are rendered for the zone
\* registered for the author and with the same options, so the long form
\* carries the hour, minute, day period and offset of the short form.
C12_LongMatchesShort ==
    (lastCall.op = "decoration" /\ lastCall.ret.kind = "tooltip")
        => /\ Lookup(lastCall.id) = [raised |-> "none", value |-> JSString(lastCall.ret.tz)]
           /\ lastCall.ret.long.hour = lastCall.ret.short.hour
           /\ lastCall.ret.long.minute = lastCall.ret.short.minute
           /\ lastCall.ret.long.dayPeriod = lastCall.ret.short.dayPeriod
           /\ lastCall.ret.long.timeZoneName = lastCall.ret.short.timeZoneName
           /\ (lastCall.ret.short.dayPeriod = "") <=> twentyFourHours
           /\ (lastCall.ret.short.timeZoneName # "") <=> showOffset
           /\ lastCall.ret.long.day >= 0
           /\ lastCall.ret.short.day = -1

\* A decoration rendered for a registered author, with the 24 hour clock.
C12_Witness ==
    /\ lastCall.op = "decoration"
    /\ lastCall.ret.kind = "tooltip"
    /\ lastCall.ret.tz = "Asia/Tokyo"
    /\ twentyFourHours
    /\ lastCall.ret.long.hour = 21

\* A zone is registered for the user id: the lookup yields a truthy value.
Registered(id) == Lookup(id).raised = "none" /\ Truthy(Lookup(id).value)

\* What C13 asks of one step.
C13_Step ==
    \A id \in UserIds \cup {""} :
        (lastCall'.op = "decoration" /\ lastCall'.id = id)
            => /\ userTimezones' = userTimezones
               /\ storedTimezones' = storedTimezones
               /\ lastCall'.raised = "none"
               /\ IF showInMessage /\ id # "" /\ Registered(id)
                  THEN lastCall'.ret.kind = "tooltip"
                  ELSE lastCall'.ret = Null

\* C13: the message decoration returns an annotation exactly when
\* showInMessage is on, the message has an author id and a zone is registered
\* for that author; in every other case it returns null; and it changes
\* neither the registry nor the persisted text.
C13_AnnotationExactlyWhen == [][C13_Step]_vars

\* The entry the persisted text holds for a user id, as loadTimezones reads it.
StoredLookup(id) == GetProperty(loadTimezones(storedTimezones), id)

\* What C14 asks of one step.
C14_Step ==
    /\ (userTimezones' # userTimezones) => lastCall'.op \in RegistryCalls
    /\ (lastCall'.op \in {"set", "remove"}) =>
          /\ \A other \in UserIds \ {lastCall'.id} :
                GetProperty(userTimezones', other) = GetProperty(userTimezones, other)
          /\ (lastCall'.wrote = "ok") =>
                LET before == loadTimezones(storedTimezones)
                    after == loadTimezones(storedTimezones')
                IN \A other \in UserIds \ {lastCall'.id} :
                      GetProperty(after, other) = GetProperty(before, other)

C14_AmendedStep ==
    /\ (userTimezones' # userTimezones) => lastCall'.op \in RegistryCalls
    /\ (lastCall'.op \in {"set", "remove"}) =>
          /\ \A other \in UserIds \ {lastCall'.id} :
                GetProperty(userTimezones', other) = GetProperty(userTimezones, other)
          /\ (lastCall'.wrote = "ok" /\ writeFailures = 0) =>
                LET before == loadTimezones(storedTimezones)
                    after == loadTimezones(storedTimezones')
                IN \A other \in UserIds \ {lastCall'.id} :
                      GetProperty(after, other) = GetProperty(before, other)

IsMapping(v) == v.t = "object" /\ \A e \in Entries(v) : e[2].t = "string"

\* C15: whatever text a load finds, the registry is a mapping from user ids
\* to zone strings, so every later lookup, set and remove operates on a
\* mapping.
C15_RegistryIsMapping == IsMapping(userTimezones)

====
